---- MODULE Spec2Model ----
(***************************************************************************)
(* Region decomposition of a toroidal BOUT++ grid (xbout/region.py).       *)
(*                                                                         *)
(* A dataset is loaded with its scalar mesh metadata; the single operation *)
(* _create_regions_toroidal classifies the topology from the raw metadata, *)
(* clamps and orders the separatrix indices, shifts them for the boundary  *)
(* cells, builds the per-topology table of rectangular regions, wires the  *)
(* x- and y-connections and attaches the region dictionary to the dataset. *)
(***************************************************************************)
EXTENDS Integers, FiniteSets, Sequences, TLC

VARIABLES
    metadata,   \* ds.metadata: the scalar mesh description (read-only input)
    topology,   \* the tag returned by _get_topology(ds)
    clamped,    \* the local breakpoints after region.py:188-196
    adjusted,   \* the local breakpoints after region.py:200-209
    regions,    \* the dictionary key -> Region attached to the dataset
    pc,         \* "loaded": metadata read; "attached": regions attached
    slices      \* the last call of Region.getSlices: its receiver, arguments
                \* and the two slices it returned, each as <<start, stop>>

vars == <<metadata, topology, clamped, adjusted, regions, pc, slices>>

(***************************************************************************)
(* Bounds of the enumerated inputs: the grid size in x and y and the guard  *)
(* cell width of the exhaustively enumerated metadata.                     *)
(***************************************************************************)
MaxNx == 3
MaxNy == 3
GuardWidth == 1
\* largest guard width passed to Region.getSlices
MaxSliceGuard == 2

\* Python's None
None == "None"

(***************************************************************************)
(* class Region                                                            *)
(***************************************************************************)
Region(name, xinner_ind, xouter_ind, ylower_ind, yupper_ind) ==
    [name             |-> name,
     xinner_ind       |-> xinner_ind,
     xouter_ind       |-> xouter_ind,
     ylower_ind       |-> ylower_ind,
     yupper_ind       |-> yupper_ind,
     connection_inner |-> None,
     connection_outer |-> None,
     connection_lower |-> None,
     connection_upper |-> None]

\* Region.getSlices(mxg, myg): slice(xi, xo), slice(yl, yu)
getSlices(self, mxg, myg) ==
    LET xi0 == self.xinner_ind
        xi1 == IF self.connection_inner # None THEN xi0 - mxg ELSE xi0
        xo  == self.xouter_ind
        xi2 == IF self.connection_outer # None THEN xi1 + mxg ELSE xi1
        yl0 == self.ylower_ind
        yl1 == IF self.connection_lower # None THEN yl0 - myg ELSE yl0
        yu0 == self.yupper_ind
        yu1 == IF self.connection_upper # None THEN yu0 + myg ELSE yu0
    IN  [xslice |-> <<xi2, xo>>, yslice |-> <<yl1, yu1>>]

(***************************************************************************)
(* Helpers                                                                 *)
(***************************************************************************)
_in_range(val, lower, upper) ==
    IF val < lower THEN lower
    ELSE IF val > upper THEN upper
    ELSE val

_order_vars_no_swap(lower, upper) == <<lower, upper>>

\* returns the pair <<first, second>>
_order_vars(lower, upper) ==
    IF upper < lower THEN <<upper, lower>> ELSE <<lower, upper>>

min(a, b) == IF b < a THEN b ELSE a

_get_topology_ix_strict(md) ==
    IF md.jyseps2_1 = md.jyseps1_2
    THEN IF md.jyseps1_1 <= 0 /\ md.jyseps2_2 >= md.ny - 1
         THEN LET ix == min(md.ixseps1, md.ixseps2) IN
              IF ix > md.nx - 1 THEN "core"
              ELSE IF ix < 0 THEN "sol"
              ELSE "limiter"
         ELSE "single-null"
    ELSE IF md.jyseps1_1 = md.jyseps2_1 /\ md.jyseps1_2 = md.jyseps2_2
         THEN "xpoint"
    ELSE IF md.ixseps1 = md.ixseps2 THEN "connected-double-null"
    ELSE "disconnected-double-null"

_get_topology_or_legs(md) ==
    IF md.jyseps2_1 = md.jyseps1_2
    THEN IF md.jyseps1_1 <= 0 \/ md.jyseps2_2 >= md.ny - 1
         THEN LET ix == min(md.ixseps1, md.ixseps2) IN
              IF ix >= md.nx - 1 THEN "core"
              ELSE IF ix <= 0 THEN "sol"
              ELSE "limiter"
         ELSE "single-null"
    ELSE IF md.jyseps1_1 = md.jyseps2_1 /\ md.jyseps1_2 = md.jyseps2_2
         THEN "xpoint"
    ELSE IF md.ixseps1 = md.ixseps2 THEN "connected-double-null"
    ELSE "disconnected-double-null"

_get_topology_double_null(md) ==
    IF md.jyseps2_1 = md.jyseps1_2
    THEN IF md.jyseps1_1 <= 0 /\ md.jyseps2_2 >= md.ny - 1
         THEN LET ix == min(md.ixseps1, md.ixseps2) IN
              IF ix >= md.nx - 1 THEN "core"
              ELSE IF ix <= 0 THEN "sol"
              ELSE "limiter"
         ELSE "single-null"
    ELSE IF md.jyseps1_1 = md.jyseps2_1 /\ md.jyseps1_2 = md.jyseps2_2
         THEN "xpoint"
    ELSE IF md.ixseps1 = md.ixseps2 THEN "double-null"
    ELSE "disconnected-double-null"

_get_topology(md) ==
    IF md.jyseps2_1 = md.jyseps1_2
    THEN IF md.jyseps1_1 <= 0 /\ md.jyseps2_2 >= md.ny - 1
         THEN LET ix == min(md.ixseps1, md.ixseps2) IN
              IF ix >= md.nx - 1 THEN "core"
              ELSE IF ix <= 0 THEN "sol"
              ELSE "limiter"
         ELSE "single-null"
    ELSE IF md.jyseps1_1 = md.jyseps2_1 /\ md.jyseps1_2 = md.jyseps2_2
         THEN "xpoint"
    ELSE IF md.ixseps1 = md.ixseps2 THEN "connected-double-null"
    ELSE "disconnected-double-null"

_create_connection_x_one_sided(rs, inner, outer) ==
    [rs EXCEPT ![inner].connection_outer = outer]

_create_connection_x(rs, inner, outer) ==
    LET r1 == [rs EXCEPT ![inner].connection_outer = outer]
    IN  [r1 EXCEPT ![outer].connection_inner = inner]

_create_connection_y_one_sided(rs, lower, upper) ==
    [rs EXCEPT ![lower].connection_upper = upper]

_create_connection_y(rs, lower, upper) ==
    LET r1 == [rs EXCEPT ![lower].connection_upper = upper]
    IN  [r1 EXCEPT ![upper].connection_lower = lower]

\* The run of _create_connection_x / _create_connection_y calls that ends a
\* topology branch, applied in program order; each call is <<"x", inner, outer>>
\* or <<"y", lower, upper>>.
RECURSIVE Connect(_, _)
Connect(rs, calls) ==
    IF calls = << >> THEN rs
    ELSE LET c == Head(calls)
             r1 == IF c[1] = "x" THEN _create_connection_x(rs, c[2], c[3])
                   ELSE _create_connection_y(rs, c[2], c[3])
         IN  Connect(r1, Tail(calls))

(***************************************************************************)
(* "Make sure all sizes are sensible"                                      *)
(***************************************************************************)
Clamp(md) ==
    LET nx     == md.nx
        ny     == md.ny
        ixs1a  == _in_range(md.ixseps1, 0, nx)
        ixs2a  == _in_range(md.ixseps2, 0, nx)
        ixs    == _order_vars(ixs1a, ixs2a)
        jys11  == _in_range(md.jyseps1_1, 0, ny - 1)
        jys21a == _in_range(md.jyseps2_1, 0, ny - 1)
        jys12a == _in_range(md.jyseps1_2, 0, ny - 1)
        jys    == _order_vars(jys21a, jys12a)
        nyin   == _in_range(md.ny_inner, jys[1] + 1, jys[2] + 1)
        jys22  == _in_range(md.jyseps2_2, 0, ny - 1)
    IN  [ixs1 |-> ixs[1], ixs2 |-> ixs[2], nx |-> nx,
         jys11 |-> jys11, jys21 |-> jys[1], nyinner |-> nyin,
         jys12 |-> jys[2], jys22 |-> jys22, ny |-> ny]

(***************************************************************************)
(* "Adjust for boundary cells"                                             *)
(***************************************************************************)
Adjust_nx_single_shift(md, w) ==
    LET mxg    == md.MXG
        ybndry == md.keep_yboundaries * md.MYG
        shiftx == md.keep_xboundaries = 0
    IN  [ixs1    |-> IF shiftx THEN w.ixs1 - mxg ELSE w.ixs1,
         ixs2    |-> IF shiftx THEN w.ixs2 - mxg ELSE w.ixs2,
         nx      |-> IF shiftx THEN w.nx - mxg ELSE w.nx,
         jys11   |-> w.jys11 + ybndry,
         jys21   |-> w.jys21 + ybndry,
         nyinner |-> w.nyinner + 2 * ybndry,
         jys12   |-> w.jys12 + 3 * ybndry,
         jys22   |-> w.jys22 + 3 * ybndry,
         ny      |-> w.ny + 4 * ybndry]

Adjust(md, w) ==
    LET mxg    == md.MXG
        ybndry == md.keep_yboundaries * md.MYG
        shiftx == md.keep_xboundaries = 0
    IN  [ixs1    |-> IF shiftx THEN w.ixs1 - mxg ELSE w.ixs1,
         ixs2    |-> IF shiftx THEN w.ixs2 - mxg ELSE w.ixs2,
         nx      |-> IF shiftx THEN w.nx - 2 * mxg ELSE w.nx,
         jys11   |-> w.jys11 + ybndry,
         jys21   |-> w.jys21 + ybndry,
         nyinner |-> w.nyinner + 2 * ybndry,
         jys12   |-> w.jys12 + 3 * ybndry,
         jys22   |-> w.jys22 + 3 * ybndry,
         ny      |-> w.ny + 4 * ybndry]

(***************************************************************************)
(* The per-topology region tables and their connection calls.              *)
(***************************************************************************)
\* topology == 'disconnected-double-null' (region.py:213-291)
RegionsDisconnectedDoubleNull(w) ==
    LET table ==
            ("lower_inner_PFR" :> Region("lower_inner_PFR", 0, w.ixs1, 0, w.jys11 + 1))
         @@ ("lower_inner_intersep" :> Region("lower_inner_intersep", w.ixs1, w.ixs2, 0, w.jys11 + 1))
         @@ ("lower_inner_SOL" :> Region("lower_inner_SOL", w.ixs2, w.nx, 0, w.jys11 + 1))
         @@ ("inner_core" :> Region("inner_core", 0, w.ixs1, w.jys11 + 1, w.jys21 + 1))
         @@ ("inner_intersep" :> Region("inner_intersep", w.ixs1, w.ixs2, w.jys11 + 1, w.jys21 + 1))
         @@ ("inner_SOL" :> Region("inner_SOL", w.ixs2, w.nx, w.jys11 + 1, w.jys21 + 1))
         @@ ("upper_inner_PFR" :> Region("upper_inner_PFR", 0, w.ixs1, w.jys21 + 1, w.nyinner))
         @@ ("upper_inner_intersep" :> Region("upper_inner_intersep", w.ixs1, w.ixs2, w.jys21 + 1, w.nyinner))
         @@ ("upper_inner_SOL" :> Region("upper_inner_SOL", w.ixs2, w.nx, w.jys21 + 1, w.nyinner))
         @@ ("upper_outer_PFR" :> Region("upper_outer_PFR", 0, w.ixs1, w.nyinner, w.jys12 + 1))
         @@ ("upper_outer_intersep" :> Region("upper_outer_intersep", w.ixs1, w.ixs2, w.nyinner, w.jys12 + 1))
         @@ ("upper_outer_SOL" :> Region("upper_outer_SOL", w.ixs2, w.nx, w.nyinner, w.jys12 + 1))
         @@ ("outer_core" :> Region("outer_core", 0, w.ixs1, w.jys12 + 1, w.jys22 + 1))
         @@ ("outer_intersep" :> Region("outer_intersep", w.ixs1, w.ixs2, w.jys12 + 1, w.jys22 + 1))
         @@ ("outer_SOL" :> Region("outer_SOL", w.ixs2, w.nx, w.jys12 + 1, w.jys22 + 1))
         @@ ("lower_outer_PFR" :> Region("lower_outer_PFR", 0, w.ixs1, w.jys22 + 1, w.ny))
         @@ ("lower_outer_intersep" :> Region("lower_outer_intersep", w.ixs1, w.ixs2, w.jys22 + 1, w.ny))
         @@ ("lower_outer_SOL" :> Region("lower_outer_SOL", w.ixs2, w.nx, w.jys22 + 1, w.ny))
        calls == <<
            <<"x", "lower_inner_PFR", "lower_inner_intersep">>,
            <<"x", "lower_inner_intersep", "lower_inner_SOL">>,
            <<"x", "inner_core", "inner_intersep">>,
            <<"x", "inner_intersep", "inner_SOL">>,
            <<"x", "upper_inner_PFR", "upper_inner_intersep">>,
            <<"x", "upper_inner_intersep", "upper_inner_SOL">>,
            <<"x", "upper_outer_PFR", "upper_outer_intersep">>,
            <<"x", "upper_outer_intersep", "upper_outer_SOL">>,
            <<"x", "outer_core", "outer_intersep">>,
            <<"x", "outer_intersep", "outer_SOL">>,
            <<"x", "lower_outer_PFR", "lower_outer_intersep">>,
            <<"x", "lower_outer_intersep", "lower_outer_SOL">>,
            <<"y", "lower_inner_PFR", "lower_outer_PFR">>,
            <<"y", "lower_inner_intersep", "inner_intersep">>,
            <<"y", "lower_inner_SOL", "inner_SOL">>,
            <<"y", "inner_core", "outer_core">>,
            <<"y", "outer_core", "inner_core">>,
            <<"y", "inner_intersep", "outer_intersep">>,
            <<"y", "inner_SOL", "upper_inner_SOL">>,
            <<"y", "upper_outer_intersep", "upper_inner_intersep">>,
            <<"y", "upper_outer_PFR", "upper_inner_PFR">>,
            <<"y", "upper_outer_SOL", "outer_SOL">>,
            <<"y", "outer_intersep", "lower_outer_intersep">>,
            <<"y", "outer_SOL", "lower_outer_SOL">>
        >>
    IN  Connect(table, calls)

\* topology == 'connected-double-null' (region.py:292-342)
RegionsConnectedDoubleNull(w) ==
    LET table ==
            ("lower_inner_PFR" :> Region("lower_inner_PFR", 0, w.ixs1, 0, w.jys11 + 1))
         @@ ("lower_inner_SOL" :> Region("lower_inner_SOL", w.ixs2, w.nx, 0, w.jys11 + 1))
         @@ ("inner_core" :> Region("inner_core", 0, w.ixs1, w.jys11 + 1, w.jys21 + 1))
         @@ ("inner_SOL" :> Region("inner_SOL", w.ixs2, w.nx, w.jys11 + 1, w.jys21 + 1))
         @@ ("upper_inner_PFR" :> Region("upper_inner_PFR", 0, w.ixs1, w.jys21 + 1, w.nyinner))
         @@ ("upper_inner_SOL" :> Region("upper_inner_SOL", w.ixs2, w.nx, w.jys21 + 1, w.nyinner))
         @@ ("upper_outer_PFR" :> Region("upper_outer_PFR", 0, w.ixs1, w.nyinner, w.jys12 + 1))
         @@ ("upper_outer_SOL" :> Region("upper_outer_SOL", w.ixs2, w.nx, w.nyinner, w.jys12 + 1))
         @@ ("outer_core" :> Region("outer_core", 0, w.ixs1, w.jys12 + 1, w.jys22 + 1))
         @@ ("outer_SOL" :> Region("outer_SOL", w.ixs2, w.nx, w.jys12 + 1, w.jys22 + 1))
         @@ ("lower_outer_PFR" :> Region("lower_outer_PFR", 0, w.ixs1, w.jys22 + 1, w.ny))
         @@ ("lower_outer_SOL" :> Region("lower_outer_SOL", w.ixs2, w.nx, w.jys22 + 1, w.ny))
        calls == <<
            <<"x", "lower_inner_PFR", "lower_inner_SOL">>,
            <<"x", "inner_core", "inner_SOL">>,
            <<"x", "upper_inner_PFR", "upper_inner_SOL">>,
            <<"x", "upper_outer_PFR", "upper_outer_SOL">>,
            <<"x", "outer_core", "outer_SOL">>,
            <<"x", "lower_outer_PFR", "lower_outer_SOL">>,
            <<"y", "lower_inner_PFR", "lower_outer_PFR">>,
            <<"y", "lower_inner_SOL", "inner_SOL">>,
            <<"y", "inner_core", "outer_core">>,
            <<"y", "outer_core", "inner_core">>,
            <<"y", "inner_SOL", "upper_inner_SOL">>,
            <<"y", "upper_outer_PFR", "upper_inner_PFR">>,
            <<"y", "upper_outer_SOL", "outer_SOL">>,
            <<"y", "outer_SOL", "lower_outer_SOL">>
        >>
    IN  Connect(table, calls)

\* topology == 'single-null' (region.py:343-365)
RegionsSingleNull(w) ==
    LET table ==
            ("inner_PFR" :> Region("inner_PFR", 0, w.ixs1, 0, w.jys11 + 1))
         @@ ("inner_SOL" :> Region("inner_SOL", w.ixs1, w.nx, 0, w.jys11 + 1))
         @@ ("core" :> Region("core", 0, w.ixs1, w.jys11 + 1, w.jys22 + 1))
         @@ ("SOL" :> Region("SOL", w.ixs2, w.nx, w.jys11 + 1, w.jys22 + 1))
         @@ ("outer_PFR" :> Region("lower_PFR", 0, w.ixs1, w.jys22 + 1, w.ny))
         @@ ("outer_SOL" :> Region("lower_SOL", w.ixs1, w.nx, w.jys22 + 1, w.ny))
        calls == <<
            <<"x", "inner_PFR", "inner_SOL">>,
            <<"x", "core", "SOL">>,
            <<"x", "outer_PFR", "outer_SOL">>,
            <<"y", "inner_PFR", "outer_PFR">>,
            <<"y", "inner_SOL", "SOL">>,
            <<"y", "core", "core">>,
            <<"y", "SOL", "outer_SOL">>
        >>
    IN  Connect(table, calls)

RegionsLimiter_same_key(w) ==
    LET table ==
            ("core" :> Region("SOL", w.ixs1, w.nx, 0, w.ny))
        calls == <<
            <<"x", "core", "core">>,
            <<"y", "core", "core">>
        >>
    IN  Connect(table, calls)

RegionsLimiter_unconnected(w) ==
    LET table ==
            ("core" :> Region("core", 0, w.ixs1, 0, w.ny))
         @@ ("SOL" :> Region("SOL", w.ixs1, w.nx, 0, w.ny))
        calls == <<
            <<"y", "core", "core">>
        >>
    IN  Connect(table, calls)

\* topology == 'limiter' (region.py:366-372)
RegionsLimiter(w) ==
    LET table ==
            ("core" :> Region("core", 0, w.ixs1, 0, w.ny))
         @@ ("SOL" :> Region("SOL", w.ixs1, w.nx, 0, w.ny))
        calls == <<
            <<"x", "core", "SOL">>,
            <<"y", "core", "core">>
        >>
    IN  Connect(table, calls)

RegionsCore_to_separatrix(w) ==
    LET table ==
            ("core" :> Region("core", 0, w.ixs1, 0, w.ny))
        calls == <<
            <<"y", "core", "core">>
        >>
    IN  Connect(table, calls)

\* topology == 'core' (region.py:373-376)
RegionsCore(w) ==
    LET table ==
            ("core" :> Region("core", 0, w.nx, 0, w.ny))
        calls == <<
            <<"y", "core", "core">>
        >>
    IN  Connect(table, calls)

\* topology == 'sol' (region.py:377-379)
RegionsSol(w) ==
    LET table ==
            ("sol" :> Region("sol", 0, w.nx, 0, w.ny))
        calls == <<
        >>
    IN  Connect(table, calls)

RegionsXpoint_PFR_wrap(w) ==
    LET table ==
            ("lower_inner_PFR" :> Region("lower_inner_PFR", 0, w.ixs1, 0, w.jys11 + 1))
         @@ ("lower_inner_SOL" :> Region("lower_inner_SOL", w.ixs1, w.nx, 0, w.jys11 + 1))
         @@ ("upper_inner_PFR" :> Region("upper_inner_PFR", 0, w.ixs1, w.jys11 + 1, w.nyinner))
         @@ ("upper_inner_SOL" :> Region("upper_inner_SOL", w.ixs1, w.nx, w.jys11 + 1, w.nyinner))
         @@ ("upper_outer_PFR" :> Region("upper_outer_PFR", 0, w.ixs1, w.nyinner, w.jys22 + 1))
         @@ ("upper_outer_SOL" :> Region("upper_outer_SOL", w.ixs1, w.nx, w.nyinner, w.jys22 + 1))
         @@ ("lower_outer_PFR" :> Region("lower_outer_PFR", 0, w.ixs1, w.jys22 + 1, w.ny))
         @@ ("lower_outer_SOL" :> Region("lower_outer_SOL", w.ixs1, w.nx, w.jys22 + 1, w.ny))
        calls == <<
            <<"x", "lower_inner_PFR", "lower_inner_SOL">>,
            <<"x", "upper_inner_PFR", "upper_inner_SOL">>,
            <<"x", "upper_outer_PFR", "upper_outer_SOL">>,
            <<"x", "lower_outer_PFR", "lower_outer_SOL">>,
            <<"y", "lower_inner_PFR", "lower_inner_PFR">>,
            <<"y", "lower_inner_SOL", "upper_inner_SOL">>,
            <<"y", "upper_outer_PFR", "upper_inner_PFR">>,
            <<"y", "upper_outer_SOL", "lower_outer_SOL">>
        >>
    IN  Connect(table, calls)

\* topology == 'xpoint' (region.py:380-412)
RegionsXpoint(w) ==
    LET table ==
            ("lower_inner_PFR" :> Region("lower_inner_PFR", 0, w.ixs1, 0, w.jys11 + 1))
         @@ ("lower_inner_SOL" :> Region("lower_inner_SOL", w.ixs1, w.nx, 0, w.jys11 + 1))
         @@ ("upper_inner_PFR" :> Region("upper_inner_PFR", 0, w.ixs1, w.jys11 + 1, w.nyinner))
         @@ ("upper_inner_SOL" :> Region("upper_inner_SOL", w.ixs1, w.nx, w.jys11 + 1, w.nyinner))
         @@ ("upper_outer_PFR" :> Region("upper_outer_PFR", 0, w.ixs1, w.nyinner, w.jys22 + 1))
         @@ ("upper_outer_SOL" :> Region("upper_outer_SOL", w.ixs1, w.nx, w.nyinner, w.jys22 + 1))
         @@ ("lower_outer_PFR" :> Region("lower_outer_PFR", 0, w.ixs1, w.jys22 + 1, w.ny))
         @@ ("lower_outer_SOL" :> Region("lower_outer_SOL", w.ixs1, w.nx, w.jys22 + 1, w.ny))
        calls == <<
            <<"x", "lower_inner_PFR", "lower_inner_SOL">>,
            <<"x", "upper_inner_PFR", "upper_inner_SOL">>,
            <<"x", "upper_outer_PFR", "upper_outer_SOL">>,
            <<"x", "lower_outer_PFR", "lower_outer_SOL">>,
            <<"y", "lower_inner_PFR", "lower_outer_PFR">>,
            <<"y", "lower_inner_SOL", "upper_inner_SOL">>,
            <<"y", "upper_outer_PFR", "upper_inner_PFR">>,
            <<"y", "upper_outer_SOL", "lower_outer_SOL">>
        >>
    IN  Connect(table, calls)

Implemented ==
    {"disconnected-double-null", "connected-double-null", "single-null",
     "limiter", "core", "sol", "xpoint"}

\* the if / elif chain over topology (region.py:213-412)
RegionTable(t, w) ==
    CASE t = "disconnected-double-null" -> RegionsDisconnectedDoubleNull(w)
      [] t = "connected-double-null"    -> RegionsConnectedDoubleNull(w)
      [] t = "single-null"              -> RegionsSingleNull(w)
      [] t = "limiter"                  -> RegionsLimiter(w)
      [] t = "core"                     -> RegionsCore(w)
      [] t = "sol"                      -> RegionsSol(w)
      [] t = "xpoint"                   -> RegionsXpoint(w)

(***************************************************************************)
(* The metadata the model is run on: every combination of small values     *)
(* around the clamping limits, and the grids named in the specification's  *)
(* scenarios.                                                              *)
(***************************************************************************)
Flag == {0, 1}

BoundedMetadata ==
    [nx : {MaxNx}, ny : {MaxNy},
     ny_inner : 1 .. MaxNy,
     ixseps1 : -1 .. MaxNx + 1, ixseps2 : -1 .. MaxNx + 1,
     jyseps1_1 : -1 .. MaxNy - 1, jyseps2_1 : -1 .. MaxNy - 1,
     jyseps1_2 : -1 .. MaxNy - 1, jyseps2_2 : -1 .. MaxNy - 1,
     MXG : {GuardWidth}, MYG : {GuardWidth},
     keep_xboundaries : Flag, keep_yboundaries : Flag]

\* core-only scenario: nx=4, ny=8, ixseps1=ixseps2=10, jyseps1_1=-1, jyseps2_2=7
ScenarioCore ==
    [nx : {4}, ny : {8}, ny_inner : {4},
     ixseps1 : {10}, ixseps2 : {10},
     jyseps1_1 : {-1}, jyseps2_1 : {3}, jyseps1_2 : {3}, jyseps2_2 : {7},
     MXG : {0, 2}, MYG : {0, 2},
     keep_xboundaries : Flag, keep_yboundaries : Flag]

\* disconnected-double-null scenario: ixseps1=5, ixseps2=9
ScenarioDisconnectedDoubleNull ==
    [nx : {12}, ny : {12}, ny_inner : {6},
     ixseps1 : {5}, ixseps2 : {9},
     jyseps1_1 : {1}, jyseps2_1 : {3}, jyseps1_2 : {7}, jyseps2_2 : {9},
     MXG : {0, 2}, MYG : {0, 2},
     keep_xboundaries : Flag, keep_yboundaries : Flag]

\* single-null grid as the grid generator writes it: no second separatrix,
\* ixseps2 = nx
ScenarioSingleNull ==
    [nx : {8}, ny : {8}, ny_inner : {4},
     ixseps1 : {4}, ixseps2 : {8},
     jyseps1_1 : {1}, jyseps2_1 : {3}, jyseps1_2 : {3}, jyseps2_2 : {5},
     MXG : {0, 2}, MYG : {0, 2},
     keep_xboundaries : Flag, keep_yboundaries : Flag]

\* the smallest grid: no x points, one y point, every breakpoint below, on and
\* above the range it is clamped into
EdgeMetadata ==
    [nx : {0}, ny : {1}, ny_inner : 0 .. 2,
     ixseps1 : -1 .. 1, ixseps2 : -1 .. 1,
     jyseps1_1 : -1 .. 1, jyseps2_1 : -1 .. 1,
     jyseps1_2 : -1 .. 1, jyseps2_2 : -1 .. 1,
     MXG : {GuardWidth}, MYG : {GuardWidth},
     keep_xboundaries : Flag, keep_yboundaries : Flag]

Metadata ==
    ScenarioSingleNull \cup ScenarioCore \cup ScenarioDisconnectedDoubleNull
        \cup BoundedMetadata \cup EdgeMetadata

(***************************************************************************)
(* The state machine                                                       *)
(***************************************************************************)
\* no call of getSlices yet
NoSlices ==
    [region |-> None, mxg |-> 0, myg |-> 0,
     xslice |-> <<0, 0>>, yslice |-> <<0, 0>>]

Init ==
    /\ metadata \in Metadata
    /\ topology = None
    /\ clamped = << >>
    /\ adjusted = << >>
    /\ regions = << >>
    /\ pc = "loaded"
    /\ slices = NoSlices

_create_regions_toroidal ==
    /\ pc = "loaded"
    /\ LET t == _get_topology(metadata)
           w == Clamp(metadata)
           a == Adjust(metadata, w)
       IN  /\ topology' = t
           /\ clamped' = w
           /\ adjusted' = a
           /\ IF t \in Implemented
              THEN /\ regions' = RegionTable(t, a)
                   /\ pc' = "attached"
              ELSE /\ regions' = regions
                   /\ pc' = "NotImplementedError"
    /\ UNCHANGED <<metadata, slices>>

\* the region dictionary _create_regions_toroidal attaches for metadata md
BuildRegions(md) ==
    RegionTable(_get_topology(md), Adjust(md, Clamp(md)))

Next == _create_regions_toroidal

Spec == Init /\ [][Next]_vars

(***************************************************************************)
(* The consumers of the region set: a later call regions[k].getSlices(mxg, *)
(* myg) on a dataset the regions are attached to.  Run on the scenario     *)
(* grids.                                                                  *)
(***************************************************************************)
\* limiter grid: no legs, separatrix inside the domain
ScenarioLimiter ==
    [nx : {8}, ny : {8}, ny_inner : {4},
     ixseps1 : {4}, ixseps2 : {4},
     jyseps1_1 : {-1}, jyseps2_1 : {3}, jyseps1_2 : {3}, jyseps2_2 : {7},
     MXG : {0, 2}, MYG : {0, 2},
     keep_xboundaries : Flag, keep_yboundaries : Flag]

ScenarioMetadata ==
    ScenarioLimiter \cup ScenarioSingleNull \cup ScenarioCore
        \cup ScenarioDisconnectedDoubleNull

InitSlices ==
    /\ metadata \in ScenarioMetadata
    /\ topology = None
    /\ clamped = << >>
    /\ adjusted = << >>
    /\ regions = << >>
    /\ pc = "loaded"
    /\ slices = NoSlices

CallGetSlices ==
    /\ pc = "attached"
    /\ \E k \in DOMAIN regions :
       \E mxg \in 0 .. MaxSliceGuard : \E myg \in 0 .. MaxSliceGuard :
           LET s == getSlices(regions[k], mxg, myg)
           IN  slices' = [region |-> k, mxg |-> mxg, myg |-> myg,
                          xslice |-> s.xslice, yslice |-> s.yslice]
    /\ UNCHANGED <<metadata, topology, clamped, adjusted, regions, pc>>

NextSlices == _create_regions_toroidal \/ CallGetSlices

SpecSlices == InitSlices /\ [][NextSlices]_vars

(***************************************************************************)
(* The builder on the grids used to compare region sets built with and     *)
(* without boundary cells: the scenario grids and the bounded grids with   *)
(* ny_inner at either end of its range.  The comparison builds two more    *)
(* region sets in every state.                                             *)
(***************************************************************************)
ShiftMetadata ==
    ScenarioMetadata \cup
    [nx : {MaxNx}, ny : {MaxNy},
     ny_inner : {1, MaxNy},
     ixseps1 : -1 .. MaxNx + 1, ixseps2 : -1 .. MaxNx + 1,
     jyseps1_1 : -1 .. MaxNy - 1, jyseps2_1 : -1 .. MaxNy - 1,
     jyseps1_2 : -1 .. MaxNy - 1, jyseps2_2 : -1 .. MaxNy - 1,
     MXG : {GuardWidth}, MYG : {GuardWidth},
     keep_xboundaries : Flag, keep_yboundaries : Flag]

InitShift ==
    /\ metadata \in ShiftMetadata
    /\ topology = None
    /\ clamped = << >>
    /\ adjusted = << >>
    /\ regions = << >>
    /\ pc = "loaded"
    /\ slices = NoSlices

SpecShift == InitShift /\ [][Next]_vars

(***************************************************************************)
(* Vocabulary of the properties                                            *)
(***************************************************************************)
Built == pc = "attached"

Keys == DOMAIN regions

\* the cell (x, y) lies in the half-open rectangle of region r
InRegion(r, x, y) ==
    /\ r.xinner_ind <= x /\ x < r.xouter_ind
    /\ r.ylower_ind <= y /\ y < r.yupper_ind

NonEmpty(r) == r.xinner_ind < r.xouter_ind /\ r.ylower_ind < r.yupper_ind

\* the no-leg condition of the classifier, on the raw metadata
NoLegs == metadata.jyseps1_1 <= 0 /\ metadata.jyseps2_2 >= metadata.ny - 1

NoUpperXpoint == metadata.jyseps2_1 = metadata.jyseps1_2

LegsCoincide ==
    /\ metadata.jyseps1_1 = metadata.jyseps2_1
    /\ metadata.jyseps1_2 = metadata.jyseps2_2

MinIxseps ==
    IF metadata.ixseps1 <= metadata.ixseps2 THEN metadata.ixseps1
    ELSE metadata.ixseps2

\* the sizes of the stored arrays, from the raw metadata and the two flags
DomainNx ==
    IF metadata.keep_xboundaries = 1 THEN metadata.nx
    ELSE metadata.nx - 2 * metadata.MXG

DomainNy ==
    IF metadata.keep_yboundaries = 1 THEN metadata.ny + 4 * metadata.MYG
    ELSE metadata.ny

(***************************************************************************)
(* C1. Partition property: the rectangles of the built regions, without    *)
(* guard cells, are pairwise disjoint and cover [0,nx) x [0,ny) exactly:   *)
(* every cell of the adjusted domain lies in exactly one region and no     *)
(* region has a cell outside the domain.                                   *)
(***************************************************************************)
C1_Partition ==
    Built =>
        /\ \A x \in 0 .. adjusted.nx - 1 : \A y \in 0 .. adjusted.ny - 1 :
               Cardinality({k \in Keys : InRegion(regions[k], x, y)}) = 1
        /\ \A k \in Keys :
               NonEmpty(regions[k]) =>
                   /\ 0 <= regions[k].xinner_ind
                   /\ regions[k].xouter_ind <= adjusted.nx
                   /\ 0 <= regions[k].ylower_ind
                   /\ regions[k].yupper_ind <= adjusted.ny

(***************************************************************************)
(* C2. Adjacency symmetry: every connection that is not None is a key of   *)
(* the region dictionary, and connections are reciprocated: A's outer is B *)
(* exactly when B's inner is A, and A's upper is B exactly when B's lower  *)
(* is A.                                                                   *)
(***************************************************************************)
C2_ConnectionsReciprocated ==
    Built =>
        \A a \in Keys :
            LET i == regions[a].connection_inner
                o == regions[a].connection_outer
                l == regions[a].connection_lower
                u == regions[a].connection_upper
            IN  /\ o # None => (o \in Keys /\ regions[o].connection_inner = a)
                /\ i # None => (i \in Keys /\ regions[i].connection_outer = a)
                /\ u # None => (u \in Keys /\ regions[u].connection_lower = a)
                /\ l # None => (l \in Keys /\ regions[l].connection_upper = a)

C2_Witness ==
    /\ Built
    /\ topology = "disconnected-double-null"
    /\ regions["inner_intersep"].connection_outer = "inner_SOL"
    /\ regions["inner_SOL"].connection_inner = "inner_intersep"
    /\ regions["upper_outer_PFR"].connection_upper = "upper_inner_PFR"
    /\ regions["upper_inner_PFR"].connection_lower = "upper_outer_PFR"
    /\ regions["lower_inner_PFR"].connection_inner = None

(***************************************************************************)
(* C3. Regions connected in x (A's outer is B and B's inner is A) meet at  *)
(* the same x index and have the same y-range.                             *)
(***************************************************************************)
C3_XConnectionsAligned ==
    Built =>
        \A a \in Keys : \A b \in Keys :
            (regions[a].connection_outer = b /\ regions[b].connection_inner = a) =>
                /\ regions[a].xouter_ind = regions[b].xinner_ind
                /\ regions[a].ylower_ind = regions[b].ylower_ind
                /\ regions[a].yupper_ind = regions[b].yupper_ind

(***************************************************************************)
(* C4. Regions connected in y (A's upper is B and B's lower is A) have the *)
(* same x-range.                                                           *)
(***************************************************************************)
C4_YConnectionsAligned ==
    Built =>
        \A a \in Keys : \A b \in Keys :
            (regions[a].connection_upper = b /\ regions[b].connection_lower = a) =>
                /\ regions[a].xinner_ind = regions[b].xinner_ind
                /\ regions[a].xouter_ind = regions[b].xouter_ind

(***************************************************************************)
(* C5. The topology tag is decided by the raw metadata alone, first match  *)
(* winning: no upper X-point and no legs gives core / sol / limiter by     *)
(* min(ixseps1, ixseps2); no upper X-point with legs gives single-null;    *)
(* coinciding legs give xpoint; equal separatrices give connected-double-  *)
(* null; everything else disconnected-double-null.  With no legs, ix = 0,  *)
(* ix in 1..nx-2 and ix = nx-1 give sol, limiter and core (nx >= 2).       *)
(***************************************************************************)
C5_TopologyClassification ==
    Built =>
        /\ (NoUpperXpoint /\ NoLegs /\ MinIxseps >= metadata.nx - 1)
               => topology = "core"
        /\ (NoUpperXpoint /\ NoLegs /\ MinIxseps < metadata.nx - 1 /\ MinIxseps <= 0)
               => topology = "sol"
        /\ (NoUpperXpoint /\ NoLegs /\ MinIxseps < metadata.nx - 1 /\ MinIxseps > 0)
               => topology = "limiter"
        /\ (NoUpperXpoint /\ ~NoLegs) => topology = "single-null"
        /\ (~NoUpperXpoint /\ LegsCoincide) => topology = "xpoint"
        /\ (~NoUpperXpoint /\ ~LegsCoincide /\ metadata.ixseps1 = metadata.ixseps2)
               => topology = "connected-double-null"
        /\ (~NoUpperXpoint /\ ~LegsCoincide /\ metadata.ixseps1 # metadata.ixseps2)
               => topology = "disconnected-double-null"
        /\ (NoUpperXpoint /\ NoLegs /\ metadata.nx >= 2) =>
               /\ MinIxseps = 0 => topology = "sol"
               /\ MinIxseps \in 1 .. metadata.nx - 2 => topology = "limiter"
               /\ MinIxseps = metadata.nx - 1 => topology = "core"

C5_Witness ==
    /\ Built
    /\ NoUpperXpoint /\ NoLegs
    /\ metadata.jyseps1_1 = -1
    /\ MinIxseps = metadata.nx - 2
    /\ metadata.ixseps2 < metadata.ixseps1
    /\ topology = "limiter"

(***************************************************************************)
(* C6. The number of regions is fixed by the topology tag: 18 for          *)
(* disconnected-double-null, 12 for connected-double-null, 6 for           *)
(* single-null, 2 for limiter, 1 for core and 1 for sol.                   *)
(***************************************************************************)
C6_RegionCount ==
    Built =>
        /\ topology = "disconnected-double-null" => Cardinality(Keys) = 18
        /\ topology = "connected-double-null" => Cardinality(Keys) = 12
        /\ topology = "single-null" => Cardinality(Keys) = 6
        /\ topology = "limiter" => Cardinality(Keys) = 2
        /\ topology = "core" => Cardinality(Keys) = 1
        /\ topology = "sol" => Cardinality(Keys) = 1

C6_Witness ==
    /\ Built
    /\ topology = "limiter"
    /\ Keys = {"core", "SOL"}
    /\ metadata.ixseps1 = 1

(***************************************************************************)
(* C7. For xpoint metadata the builder yields exactly 6 regions, y-chained *)
(* lower to upper on both legs, none connected to itself in y.             *)
(***************************************************************************)
C7_XpointSixRegions ==
    (Built /\ topology = "xpoint") =>
        /\ Cardinality(Keys) = 6
        /\ \A k \in Keys :
               /\ regions[k].connection_lower # k
               /\ regions[k].connection_upper # k

(***************************************************************************)
(* C7, amended.  For xpoint metadata the builder yields exactly 8 regions  *)
(* (lower/upper x inner/outer x PFR/SOL); in y, lower_inner_PFR is chained *)
(* to lower_outer_PFR, lower_inner_SOL to upper_inner_SOL, upper_outer_PFR *)
(* to upper_inner_PFR and upper_outer_SOL to lower_outer_SOL; no region is *)
(* connected to itself in y.                                               *)
(***************************************************************************)
C7_XpointEightRegions ==
    (Built /\ topology = "xpoint") =>
        /\ Keys = {"lower_inner_PFR", "lower_inner_SOL", "upper_inner_PFR",
                   "upper_inner_SOL", "upper_outer_PFR", "upper_outer_SOL",
                   "lower_outer_PFR", "lower_outer_SOL"}
        /\ Cardinality(Keys) = 8
        /\ regions["lower_inner_PFR"].connection_upper = "lower_outer_PFR"
        /\ regions["lower_outer_PFR"].connection_lower = "lower_inner_PFR"
        /\ regions["lower_inner_SOL"].connection_upper = "upper_inner_SOL"
        /\ regions["upper_inner_SOL"].connection_lower = "lower_inner_SOL"
        /\ regions["upper_outer_PFR"].connection_upper = "upper_inner_PFR"
        /\ regions["upper_inner_PFR"].connection_lower = "upper_outer_PFR"
        /\ regions["upper_outer_SOL"].connection_upper = "lower_outer_SOL"
        /\ regions["lower_outer_SOL"].connection_lower = "upper_outer_SOL"
        /\ \A k \in Keys :
               /\ regions[k].connection_lower # k
               /\ regions[k].connection_upper # k

C7_Witness ==
    /\ Built
    /\ topology = "xpoint"
    /\ metadata.jyseps1_1 = 0 /\ metadata.jyseps2_2 = 1
    /\ metadata.ixseps1 = 1 /\ metadata.ixseps2 = 2
    /\ Cardinality(Keys) = 8

(***************************************************************************)
(* C8. Whenever jyseps2_1 # jyseps1_2 and the no-leg condition fails, the  *)
(* topology is single-null and the builder yields the 6 regions inner_PFR, *)
(* inner_SOL, core, SOL, outer_PFR, outer_SOL, with the core connected to  *)
(* itself in y and the PFR and SOL regions chained across the legs.        *)
(***************************************************************************)
C8_SingleNullWhenUpperXpointDiffers ==
    (Built /\ ~NoUpperXpoint /\ ~NoLegs) =>
        /\ topology = "single-null"
        /\ Keys = {"inner_PFR", "inner_SOL", "core", "SOL", "outer_PFR", "outer_SOL"}

(***************************************************************************)
(* C8, amended.  Whenever jyseps2_1 = jyseps1_2 and the no-leg condition   *)
(* fails, the topology is single-null and the builder yields 6 regions     *)
(* under the keys inner_PFR, inner_SOL, core, SOL, outer_PFR, outer_SOL,   *)
(* with core.connection_lower = core.connection_upper = core,              *)
(* inner_PFR.connection_upper = outer_PFR, inner_SOL.connection_upper =    *)
(* SOL and SOL.connection_upper = outer_SOL.                               *)
(***************************************************************************)
C8_SingleNull ==
    (Built /\ NoUpperXpoint /\ ~NoLegs) =>
        /\ topology = "single-null"
        /\ Keys = {"inner_PFR", "inner_SOL", "core", "SOL", "outer_PFR", "outer_SOL"}
        /\ Cardinality(Keys) = 6
        /\ regions["core"].connection_lower = "core"
        /\ regions["core"].connection_upper = "core"
        /\ regions["inner_PFR"].connection_upper = "outer_PFR"
        /\ regions["inner_SOL"].connection_upper = "SOL"
        /\ regions["SOL"].connection_upper = "outer_SOL"

C8_Witness ==
    /\ Built
    /\ NoUpperXpoint /\ ~NoLegs
    /\ metadata.jyseps1_1 = 0 /\ metadata.jyseps2_2 = 1
    /\ topology = "single-null"
    /\ regions["core"].ylower_ind < regions["core"].yupper_ind
    /\ regions["SOL"].connection_lower = "inner_SOL"

(***************************************************************************)
(* C9. Whenever ixseps1 # ixseps2 and jyseps2_1 # jyseps1_2 the builder    *)
(* yields exactly 18 regions in which inner_core and outer_core are        *)
(* connected to each other in y in both directions.                        *)
(***************************************************************************)
C9_EighteenRegionsWhenSeparatricesDiffer ==
    (Built /\ metadata.ixseps1 # metadata.ixseps2 /\ ~NoUpperXpoint) =>
        /\ Cardinality(Keys) = 18
        /\ regions["inner_core"].connection_upper = "outer_core"
        /\ regions["inner_core"].connection_lower = "outer_core"
        /\ regions["outer_core"].connection_upper = "inner_core"
        /\ regions["outer_core"].connection_lower = "inner_core"

(***************************************************************************)
(* C9, amended.  Whenever ixseps1 # ixseps2, jyseps2_1 # jyseps1_2 and it  *)
(* is not the case that both jyseps1_1 = jyseps2_1 and jyseps1_2 =         *)
(* jyseps2_2 (which is classified xpoint first), the builder yields        *)
(* exactly 18 regions in which inner_core and outer_core are connected to  *)
(* each other in y in both directions.                                     *)
(***************************************************************************)
C9_DisconnectedDoubleNull ==
    (Built /\ metadata.ixseps1 # metadata.ixseps2 /\ ~NoUpperXpoint /\ ~LegsCoincide) =>
        /\ Cardinality(Keys) = 18
        /\ regions["inner_core"].connection_upper = "outer_core"
        /\ regions["inner_core"].connection_lower = "outer_core"
        /\ regions["outer_core"].connection_upper = "inner_core"
        /\ regions["outer_core"].connection_lower = "inner_core"

C9_Witness ==
    /\ Built
    /\ metadata.ixseps1 = 5 /\ metadata.ixseps2 = 9
    /\ ~NoUpperXpoint /\ ~LegsCoincide
    /\ topology = "disconnected-double-null"
    /\ Cardinality(Keys) = 18
    /\ regions["outer_core"].connection_upper = "inner_core"

(***************************************************************************)
(* C10. For core metadata the region set is the single region core, which  *)
(* spans the whole stored domain in x and y, is connected to itself in y   *)
(* on both edges and has no x-connection; for nx=4, ny=8,                  *)
(* ixseps1=ixseps2=10, jyseps2_1=jyseps1_2, jyseps1_1=-1, jyseps2_2=7,     *)
(* keep_xboundaries=1, keep_yboundaries=0 it is x:[0,4), y:[0,8).          *)
(***************************************************************************)
C10_CoreRegion ==
    /\ (Built /\ topology = "core") =>
           /\ Keys = {"core"}
           /\ regions["core"].name = "core"
           /\ regions["core"].xinner_ind = 0
           /\ regions["core"].xouter_ind = DomainNx
           /\ regions["core"].ylower_ind = 0
           /\ regions["core"].yupper_ind = DomainNy
           /\ regions["core"].connection_lower = "core"
           /\ regions["core"].connection_upper = "core"
           /\ regions["core"].connection_inner = None
           /\ regions["core"].connection_outer = None
    /\ (/\ Built
        /\ metadata.nx = 4 /\ metadata.ny = 8
        /\ metadata.ixseps1 = 10 /\ metadata.ixseps2 = 10
        /\ NoUpperXpoint
        /\ metadata.jyseps1_1 = -1 /\ metadata.jyseps2_2 = 7
        /\ metadata.keep_xboundaries = 1 /\ metadata.keep_yboundaries = 0) =>
           /\ topology = "core"
           /\ Keys = {"core"}
           /\ regions["core"].xinner_ind = 0 /\ regions["core"].xouter_ind = 4
           /\ regions["core"].ylower_ind = 0 /\ regions["core"].yupper_ind = 8

C10_Witness ==
    /\ Built
    /\ metadata.nx = 4 /\ metadata.ny = 8
    /\ metadata.ixseps1 = 10 /\ metadata.ixseps2 = 10
    /\ NoUpperXpoint
    /\ metadata.jyseps1_1 = -1 /\ metadata.jyseps2_2 = 7
    /\ metadata.keep_xboundaries = 1 /\ metadata.keep_yboundaries = 0
    /\ topology = "core"
    /\ regions["core"].connection_upper = "core"

(***************************************************************************)
(* C11. For sol metadata the region set holds a region under the name SOL  *)
(* (the name test_region_sol looks up), and it is the single region that   *)
(* spans the whole domain.                                                 *)
(***************************************************************************)
C11_SolRegionUnderSOL ==
    (Built /\ topology = "sol") =>
        /\ "SOL" \in Keys
        /\ regions["SOL"].xinner_ind = 0
        /\ regions["SOL"].xouter_ind = adjusted.nx
        /\ regions["SOL"].ylower_ind = 0
        /\ regions["SOL"].yupper_ind = adjusted.ny

(***************************************************************************)
(* C12. getSlices(mxg, myg) widens the region by the guard width at every  *)
(* edge that has a neighbour and leaves the other edges untouched: the     *)
(* x-slice runs from xinner_ind - mxg (if connection_inner is set) to      *)
(* xouter_ind + mxg (if connection_outer is set), the y-slice from         *)
(* ylower_ind - myg (if connection_lower is set) to yupper_ind + myg (if   *)
(* connection_upper is set).                                               *)
(***************************************************************************)
C12_SlicesWidenedAtSeams ==
    slices.region # None =>
        LET r == regions[slices.region]
            gi == IF r.connection_inner # None THEN slices.mxg ELSE 0
            go == IF r.connection_outer # None THEN slices.mxg ELSE 0
            gl == IF r.connection_lower # None THEN slices.myg ELSE 0
            gu == IF r.connection_upper # None THEN slices.myg ELSE 0
        IN  /\ slices.xslice = <<r.xinner_ind - gi, r.xouter_ind + go>>
            /\ slices.yslice = <<r.ylower_ind - gl, r.yupper_ind + gu>>

(***************************************************************************)
(* C13. For single-null metadata, with ybndry = MYG if keep_yboundaries    *)
(* else 0, core and SOL have the y-range [jyseps1_1 + ybndry + 1,          *)
(* jyseps2_2 + ybndry + 1), the inner-leg regions [0, jyseps1_1 + ybndry   *)
(* + 1) and the outer-leg regions [jyseps2_2 + ybndry + 1, ny + 2*ybndry), *)
(* on the metadata values of jyseps1_1, jyseps2_2 and ny.                  *)
(***************************************************************************)
C13_SingleNullYRanges ==
    (Built /\ topology = "single-null") =>
        LET ybndry == IF metadata.keep_yboundaries = 1 THEN metadata.MYG ELSE 0
            jys1 == metadata.jyseps1_1 + ybndry
            jys2 == metadata.jyseps2_2 + ybndry
            ny == metadata.ny + 2 * ybndry
        IN  /\ \A k \in {"core", "SOL"} :
                   /\ regions[k].ylower_ind = jys1 + 1
                   /\ regions[k].yupper_ind = jys2 + 1
            /\ \A k \in {"inner_PFR", "inner_SOL"} :
                   /\ regions[k].ylower_ind = 0
                   /\ regions[k].yupper_ind = jys1 + 1
            /\ \A k \in {"outer_PFR", "outer_SOL"} :
                   /\ regions[k].ylower_ind = jys2 + 1
                   /\ regions[k].yupper_ind = ny

(***************************************************************************)
(* C14. Boundary adjustment is a pure index shift.  Against the region set *)
(* built from the same metadata with keep_xboundaries=1 and                *)
(* keep_yboundaries=0, the built set has the same keys, names and          *)
(* connections, and its bounds are those of the same table with, when      *)
(* keep_xboundaries=0, the separatrix x-bounds lowered by MXG and nx by    *)
(* 2*MXG, and, when keep_yboundaries=1, the y-breakpoints jyseps1_1+1,     *)
(* jyseps2_1+1, ny_inner, jyseps1_2+1, jyseps2_2+1, ny raised by 1, 1, 2,  *)
(* 3, 3, 4 times MYG; x=0 and y=0 stay.                                    *)
(***************************************************************************)
Unadjusted == [metadata EXCEPT !.keep_xboundaries = 1, !.keep_yboundaries = 0]

ShiftedBreakpoints ==
    LET w  == Clamp(Unadjusted)
        dx == IF metadata.keep_xboundaries = 0 THEN metadata.MXG ELSE 0
        dy == IF metadata.keep_yboundaries = 1 THEN metadata.MYG ELSE 0
    IN  [ixs1 |-> w.ixs1 - dx, ixs2 |-> w.ixs2 - dx, nx |-> w.nx - 2 * dx,
         jys11 |-> w.jys11 + dy, jys21 |-> w.jys21 + dy,
         nyinner |-> w.nyinner + 2 * dy,
         jys12 |-> w.jys12 + 3 * dy, jys22 |-> w.jys22 + 3 * dy,
         ny |-> w.ny + 4 * dy]

Partitions(rs, nx, ny) ==
    /\ \A k \in DOMAIN rs :
           /\ 0 <= rs[k].xinner_ind /\ rs[k].xinner_ind <= rs[k].xouter_ind
           /\ rs[k].xouter_ind <= nx
           /\ 0 <= rs[k].ylower_ind /\ rs[k].ylower_ind <= rs[k].yupper_ind
           /\ rs[k].yupper_ind <= ny
    /\ \A x \in 0 .. nx - 1 : \A y \in 0 .. ny - 1 :
           Cardinality({k \in DOMAIN rs : InRegion(rs[k], x, y)}) = 1

C15_InvalidGeometryRejected ==
    LET a == Adjust(metadata, Clamp(metadata))
    IN  (pc # "loaded" /\ ~Partitions(BuildRegions(metadata), a.nx, a.ny)) =>
            (pc = "InvalidMeshGeometry" /\ DOMAIN regions = {})

(***************************************************************************)
(* C16. The region set maps each region's name to the region: every key    *)
(* equals the name attribute of the Region stored under it, names are      *)
(* unique in the set, and every connection that is set is such a key.      *)
(***************************************************************************)
C16_KeysAreNames ==
    Built =>
        /\ \A k \in Keys : regions[k].name = k
        /\ Cardinality({regions[k].name : k \in Keys}) = Cardinality(Keys)
        /\ \A k \in Keys :
               {regions[k].connection_inner, regions[k].connection_outer,
                regions[k].connection_lower, regions[k].connection_upper}
                   \subseteq Keys \cup {None}

(***************************************************************************)
(* C17. In every built region set an absent connection marks a true domain *)
(* boundary and a present one an internal seam: connection_inner is None   *)
(* exactly when xinner_ind = 0, connection_outer is None exactly when      *)
(* xouter_ind = nx, a region whose connection_lower is None has ylower_ind *)
(* equal to 0 or ny_inner, and a region whose connection_upper is None has *)
(* yupper_ind equal to ny_inner or ny (all values boundary-adjusted).      *)
(***************************************************************************)
NoneLowerAtBoundary(r) ==
    r.connection_lower = None => r.ylower_ind \in {0, adjusted.nyinner}

NoneUpperAtBoundary(r) ==
    r.connection_upper = None => r.yupper_ind \in {adjusted.nyinner, adjusted.ny}

C17_NoneExactlyAtBoundary ==
    Built =>
        \A k \in Keys :
            /\ regions[k].connection_inner = None <=> regions[k].xinner_ind = 0
            /\ regions[k].connection_outer = None <=>
                   regions[k].xouter_ind = adjusted.nx
            /\ NoneLowerAtBoundary(regions[k])
            /\ NoneUpperAtBoundary(regions[k])

\* C17 as the code has it: an absent connection implies a domain boundary in
\* all four directions; the converse fails when a breakpoint sits on the
\* boundary, where the region next to the wall is empty and still connected.
C17_NoneImpliesBoundary ==
    Built =>
        \A k \in Keys :
            /\ regions[k].connection_inner = None => regions[k].xinner_ind = 0
            /\ regions[k].connection_outer = None =>
                   regions[k].xouter_ind = adjusted.nx
            /\ NoneLowerAtBoundary(regions[k])
            /\ NoneUpperAtBoundary(regions[k])

\* A limiter with a separatrix strictly inside the grid: the core's outer edge
\* and the SOL's inner edge are seams, the other x-edges and the SOL's y-edges
\* are walls.
C17_Witness ==
    /\ Built
    /\ topology = "limiter"
    /\ 0 < adjusted.ixs1 /\ adjusted.ixs1 < adjusted.nx
    /\ regions["core"].connection_inner = None
    /\ regions["core"].connection_outer = "SOL"
    /\ regions["SOL"].connection_outer = None
    /\ regions["SOL"].connection_lower = None
    /\ regions["SOL"].connection_upper = None

(***************************************************************************)
(* C18. For every input metadata with nx >= 0 and ny >= 1, after the       *)
(* clamping/ordering step and before the boundary shift the working        *)
(* breakpoints satisfy 0 <= ixseps1 <= ixseps2 <= nx,                      *)
(* 0 <= jyseps1_1 <= ny-1, 0 <= jyseps2_1 <= jyseps1_2 <= ny-1,            *)
(* jyseps2_1+1 <= ny_inner <= jyseps1_2+1 and 0 <= jyseps2_2 <= ny-1.      *)
(***************************************************************************)
C18_ClampedBreakpoints ==
    (pc # "loaded" /\ metadata.nx >= 0 /\ metadata.ny >= 1) =>
        /\ 0 <= clamped.ixs1 /\ clamped.ixs1 <= clamped.ixs2
        /\ clamped.ixs2 <= metadata.nx
        /\ 0 <= clamped.jys11 /\ clamped.jys11 <= metadata.ny - 1
        /\ 0 <= clamped.jys21 /\ clamped.jys21 <= clamped.jys12
        /\ clamped.jys12 <= metadata.ny - 1
        /\ clamped.jys21 + 1 <= clamped.nyinner
        /\ clamped.nyinner <= clamped.jys12 + 1
        /\ 0 <= clamped.jys22 /\ clamped.jys22 <= metadata.ny - 1

\* Both separatrix pairs arrive out of order, ixseps1 beyond the grid,
\* jyseps1_1 below it and ny_inner above its range: every clamp and both swaps
\* have acted.
C18_Witness ==
    /\ pc # "loaded"
    /\ metadata.ixseps1 > metadata.nx
    /\ metadata.ixseps2 \in 0 .. metadata.nx - 1
    /\ clamped.ixs1 = metadata.ixseps2 /\ clamped.ixs2 = metadata.nx
    /\ metadata.jyseps1_1 < 0 /\ clamped.jys11 = 0
    /\ metadata.jyseps1_2 >= 0 /\ metadata.jyseps2_1 > metadata.jyseps1_2
    /\ clamped.jys21 = metadata.jyseps1_2
    /\ clamped.jys12 = metadata.jyseps2_1
    /\ metadata.ny_inner > clamped.jys12 + 1
    /\ clamped.nyinner = clamped.jys12 + 1

\* On the smallest grid a breakpoint above ny - 1 is brought down to it.
C18_WitnessSmallestGrid ==
    /\ pc # "loaded"
    /\ metadata.nx = 0 /\ metadata.ny = 1
    /\ metadata.jyseps2_2 > metadata.ny - 1 /\ clamped.jys22 = 0
    /\ metadata.ixseps1 > 0 /\ clamped.ixs1 = 0

(***************************************************************************)
(* C19. Classification is total: for every integer-valued metadata         *)
(* _get_topology returns one of the seven tags {core, sol, limiter,        *)
(* single-null, connected-double-null, disconnected-double-null, xpoint},  *)
(* so the builder's unrecognized-topology error branch is never reached    *)
(* when the tag comes from the classifier.                                 *)
(***************************************************************************)
SevenTags ==
    {"core", "sol", "limiter", "single-null", "connected-double-null",
     "disconnected-double-null", "xpoint"}

C19_ClassificationTotal ==
    /\ _get_topology(metadata) \in SevenTags
    /\ pc # "loaded" => (topology \in SevenTags /\ pc = "attached")
    /\ pc # "NotImplementedError"

\* A grid with an upper X-point and a single separatrix is classified and
\* built by the connected-double-null branch, the last but one the classifier
\* and the builder try.
C19_Witness ==
    /\ pc = "attached"
    /\ metadata.jyseps2_1 # metadata.jyseps1_2
    /\ metadata.jyseps1_1 # metadata.jyseps2_1
    /\ metadata.ixseps1 = metadata.ixseps2
    /\ topology = "connected-double-null"
    /\ Cardinality(Keys) = 12

(***************************************************************************)
(* C20. Every region in every built region set is a well-formed rectangle  *)
(* inside the adjusted domain: 0 <= xinner_ind <= xouter_ind <= nx and     *)
(* 0 <= ylower_ind <= yupper_ind <= ny, for every metadata and both        *)
(* settings of keep_xboundaries and keep_yboundaries (no negative index    *)
(* after subtracting MXG, no inverted x- or y-range when the breakpoints   *)
(* are out of order).                                                      *)
(***************************************************************************)
C20_WellFormedRectangles ==
    Built =>
        \A k \in Keys :
            /\ 0 <= regions[k].xinner_ind
            /\ regions[k].xinner_ind <= regions[k].xouter_ind
            /\ regions[k].xouter_ind <= adjusted.nx
            /\ 0 <= regions[k].ylower_ind
            /\ regions[k].ylower_ind <= regions[k].yupper_ind
            /\ regions[k].yupper_ind <= adjusted.ny

====
